---- MODULE Spec2Model ----
(***************************************************************************)
(* Model of the nb2 runtime core (core/src/runtime/mod.rs): build, the     *)
(* install operations, set_on_signal, execute and Drop, together with the  *)
(* worker threads that run the installed bootstraps.  The master thread's  *)
(* position inside execute is the variable pc; worker threads interleave   *)
(* with it.                                                                *)
(***************************************************************************)
EXTENDS Integers, Sequences, FiniteSets, TLC

(* ------------------------------ bounds --------------------------------- *)
MaxInstalls == 1
MaxExecutes == 2
MaxSetOnSignal == 2
MaxSignals == 2

(* --------------------------- configuration ----------------------------- *)
\* config.master_core and config.cores of RuntimeSettings
Master == 0
WorkerCores == {1, 2}

\* enum UnixSignal
UnixSignal == {"SIGHUP", "SIGINT", "SIGTERM"}

\* config.duration: Option<u64>; None is written NoDuration
NoDuration == 0 - 1
DurationChoices == {NoDuration, 0, 1}

\* the per-port configurations (conf.name, conf.cores) a RuntimeSettings may
\* hold: a core without any queue, two ports sharing a core, two ports of
\* the same name, and a port that lists the master core
PortsChoices ==
    { << [name |-> "eth0", cores |-> {1}] >>,
      << [name |-> "eth0", cores |-> {1, 2}], [name |-> "eth1", cores |-> {2}] >>,
      << [name |-> "eth0", cores |-> {1}], [name |-> "eth0", cores |-> {1}] >>,
      << [name |-> "eth0", cores |-> {2}], [name |-> "eth1", cores |-> {Master, 1}] >> }

PortNames == {"eth0", "eth1", "nope"}

\* the user callbacks given to set_on_signal, each as the set of signals it
\* answers true for
CallbackChoices == { {}, {"SIGINT", "SIGTERM"} }

RuntimeSettings ==
    [ports : PortsChoices, duration : DurationChoices]

\* config.all_cores(): master, workers and every port's cores
all_cores(cfg) ==
    {Master} \cup WorkerCores
        \cup UNION {cfg.ports[i].cores : i \in 1..Len(cfg.ports)}

(* ------------------------------- state --------------------------------- *)
VARIABLES
    config,      \* the RuntimeSettings given to build
    phase,       \* "new", "built", "buildfailed", "dropped"
    buildErr,    \* the error a failed build returned
    eal,         \* "uninit", "inited", "cleaned"
    ealCleanups, \* number of eal_cleanup calls
    mempools,    \* "none", "alive", "freed"
    ports,       \* Runtime.ports: Seq of [name, queues, state]
    cores,       \* Runtime.core_map.cores: CoreId -> [unpark, shutdown, join]
    worker,      \* the launched worker threads: CoreId -> [status, queue, tasks]
    on_signal,   \* Runtime.on_signal: [id, admits]
    cbCount,     \* number of set_on_signal calls so far
    pc,          \* position of the master thread inside execute
    idx,         \* port index of the loop execute is in
    visited,     \* cores the current loop over core_map.cores has visited
    cur,         \* core whose join handle execute is about to join
    result,      \* result of the last call of execute: "none", "Ok", "Err"
    ex,          \* what the current (last) call of execute did
    executes,    \* number of execute calls
    okExecutes,  \* number of execute calls that returned Ok
    installs,    \* number of install calls
    lastInstall, \* result of the last install call
    lastCall,    \* the last install call: its operation and core argument
    portInstalled, \* per install: the port a successful add_pipeline_to_port
                 \* installed on, 0 for any other install
    firedCount,  \* per core: times its shutdown trigger was fired
    joinedCount, \* per core: times its thread was joined
    invoked,     \* log of installer invocations
    polled,      \* log of task runs
    calls        \* per (install, thread): times the installer was invoked

vars == << config, phase, buildErr, eal, ealCleanups, mempools, ports, cores,
           worker, on_signal, cbCount, pc, idx, visited, cur, result, ex,
           executes, okExecutes, installs, lastInstall, firedCount,
           joinedCount, invoked, polled, calls, portInstalled, lastCall >>

AllCoreIds == {Master} \cup WorkerCores

\* the core argument of a call that takes none
NoCore == 0 - 1

\* variable groups
buildVars == << config, phase, buildErr, eal, ealCleanups, mempools >>
sigVars == << on_signal, cbCount >>
installVars == << installs, lastInstall, portInstalled, lastCall >>
logVars == << invoked, polled, calls >>
countVars == << firedCount, joinedCount >>
loopVars == << idx, visited, cur >>

NoExec ==
    [ n |-> 0, okBefore |-> 0, latestCb |-> 0, started |-> {}, failed |-> 0,
      unparked |-> {}, waitFailed |-> FALSE, signals |-> << >>,
      cbInvoked |-> {}, woke |-> FALSE, fired |-> {}, joined |-> {},
      stopped |-> {}, seqs |-> 0 ]

Init ==
    /\ config \in RuntimeSettings
    /\ phase = "new"
    /\ buildErr = "none"
    /\ eal = "uninit"
    /\ ealCleanups = 0
    /\ mempools = "none"
    /\ ports = << >>
    /\ cores = << >>
    /\ worker = << >>
    /\ on_signal = [id |-> 0, admits |-> UnixSignal]
    /\ cbCount = 0
    /\ pc = "idle"
    /\ idx = 0
    /\ visited = {}
    /\ cur = 0
    /\ result = "none"
    /\ ex = NoExec
    /\ executes = 0
    /\ okExecutes = 0
    /\ installs = 0
    /\ lastInstall = "none"
    /\ portInstalled = [k \in 1..MaxInstalls |-> 0]
    /\ lastCall = [op |-> "none", core |-> NoCore]
    /\ firedCount = [c \in AllCoreIds |-> 0]
    /\ joinedCount = [c \in AllCoreIds |-> 0]
    /\ invoked = {}
    /\ polled = {}
    /\ calls = [k \in (1..MaxInstalls) \X AllCoreIds |-> 0]

(* ------------------------------- build --------------------------------- *)
\* CoreMapBuilder::new().cores(&cores).master_core(m).finish(): one parked
\* worker per core other than the master
CoreMapOf(cfg) ==
    [c \in all_cores(cfg) \ {Master} |->
        [unpark |-> TRUE, shutdown |-> TRUE, join |-> TRUE]]

ParkedWorkers(cfg) ==
    [c \in all_cores(cfg) \ {Master} |->
        [status |-> "parked", queue |-> << >>, tasks |-> {}]]

\* PortBuilder...finish() for one port configuration: a Configured port with
\* one queue per assigned core, the queue of core c on port i being <<i, c>>
PortOf(cfg, i) ==
    [name |-> cfg.ports[i].name, queues |-> cfg.ports[i].cores,
     state |-> "Configured"]

\* a port builder that accepts any core list
PortCoresKnown_Any(cfg, i) == cfg.ports[i].cores \subseteq AllCoreIds

\* PortBuilder::cores: the assigned cores must be worker cores
PortCoresKnown(cfg, i) ==
    cfg.ports[i].cores \subseteq DOMAIN CoreMapOf(cfg)

\* the ports a build over cfg can fail at: any port (device error), and
\* certainly the first port whose cores are not all workers
FirstUnknown(cfg) ==
    IF \E i \in 1..Len(cfg.ports) : ~PortCoresKnown(cfg, i)
    THEN CHOOSE i \in 1..Len(cfg.ports) :
            /\ ~PortCoresKnown(cfg, i)
            /\ \A j \in 1..(i-1) : PortCoresKnown(cfg, j)
    ELSE Len(cfg.ports) + 1

BuildFailsAt(stage, k) ==
    /\ phase' = "buildfailed"
    /\ buildErr' = stage
    /\ eal' = IF stage = "EalInitFailed" THEN "uninit" ELSE "inited"
    /\ ealCleanups' = ealCleanups
    /\ mempools' = IF stage \in {"EalInitFailed", "AllocationFailed"}
                   THEN "none" ELSE "freed"
    /\ cores' = << >>
    /\ worker' = IF stage = "PortError" THEN ParkedWorkers(config) ELSE << >>
    /\ ports' = IF stage = "PortError"
                THEN [i \in 1..(k-1) |-> [PortOf(config, i) EXCEPT !.state = "Closed"]]
                ELSE << >>
    /\ UNCHANGED << on_signal >>

BuildOk ==
    /\ FirstUnknown(config) > Len(config.ports)
    /\ phase' = "built"
    /\ buildErr' = "none"
    /\ eal' = "inited"
    /\ ealCleanups' = ealCleanups
    /\ mempools' = "alive"
    /\ cores' = CoreMapOf(config)
    /\ worker' = ParkedWorkers(config)
    /\ ports' = [i \in 1..Len(config.ports) |-> PortOf(config, i)]
    /\ on_signal' = [id |-> 0, admits |-> UnixSignal]

Build ==
    /\ phase = "new"
    /\ \/ BuildFailsAt("EalInitFailed", 0)
       \/ BuildFailsAt("AllocationFailed", 0)
       \/ BuildFailsAt("CoreInitFailed", 0)
       \/ \E k \in 1..Len(config.ports) :
            /\ k <= FirstUnknown(config)
            /\ BuildFailsAt("PortError", k)
       \/ BuildOk
    /\ UNCHANGED << config, cbCount, pc, idx, visited, cur, result, ex,
                    executes, okExecutes, installVars, firedCount,
                    joinedCount, logVars >>

(* -------------------------------- drop --------------------------------- *)
Drop ==
    /\ phase = "built"
    /\ pc = "idle"
    /\ phase' = "dropped"
    /\ eal' = "cleaned"
    /\ ealCleanups' = ealCleanups + 1
    /\ mempools' = "freed"
    /\ UNCHANGED << config, buildErr, ports, cores, worker, on_signal,
                    cbCount, pc, idx, visited, cur, result, ex, executes,
                    okExecutes, installVars, firedCount,
                    joinedCount, logVars >>

(* ---------------------------- set_on_signal ---------------------------- *)
\* set_on_signal that keeps a callback already set instead of replacing it
SetOnSignal_KeepFirst ==
    /\ phase = "built"
    /\ pc = "idle"
    /\ cbCount < MaxSetOnSignal
    /\ \E f \in CallbackChoices :
         on_signal' = IF cbCount = 0 THEN [id |-> 1, admits |-> f]
                      ELSE on_signal
    /\ cbCount' = cbCount + 1
    /\ UNCHANGED << config, phase, buildErr, eal, ealCleanups, mempools,
                    ports, cores, worker, pc, idx, visited, cur, result, ex,
                    executes, okExecutes, installVars, firedCount,
                    joinedCount, logVars >>

SetOnSignal ==
    /\ phase = "built"
    /\ pc = "idle"
    /\ cbCount < MaxSetOnSignal
    /\ \E f \in CallbackChoices :
         on_signal' = [id |-> cbCount + 1, admits |-> f]
    /\ cbCount' = cbCount + 1
    /\ UNCHANGED << config, phase, buildErr, eal, ealCleanups, mempools,
                    ports, cores, worker, pc, idx, visited, cur, result, ex,
                    executes, okExecutes, installVars, firedCount,
                    joinedCount, logVars >>

(* ------------------------------ installs ------------------------------- *)
RECURSIVE Perms(_)
\* the orders in which a HashMap over the keys S may be iterated
Perms(S) ==
    IF S = {} THEN { << >> }
    ELSE UNION { { << x >> \o p : p \in Perms(S \ {x}) } : x \in S }

\* thread.spawn(bootstrap): the executor of an exited worker refuses the task
CanSpawn(w, c) == w[c].status # "exited"

Spawn(w, c, b) == [w EXCEPT ![c].queue = Append(@, b)]

Bootstrap(kind, c, arg) ==
    [id |-> installs + 1, kind |-> kind, target |-> c, arg |-> arg,
     epoch |-> executes]

\* ports.iter().find(|p| p.name() == port): index of the first match, 0 if none
FindPort(name) ==
    IF \E i \in 1..Len(ports) : ports[i].name = name
    THEN CHOOSE i \in 1..Len(ports) :
            /\ ports[i].name = name
            /\ \A j \in 1..(i-1) : ports[j].name # name
    ELSE 0

RECURSIVE SpawnEach_WrongThread(_, _, _, _)
\* the install loop looking the thread up once, before the loop: every
\* bootstrap goes to the first core's executor
SpawnEach_WrongThread(w, p, ord, k) ==
    IF k > Len(ord) THEN w
    ELSE IF ~CanSpawn(w, ord[1]) THEN w
    ELSE SpawnEach_WrongThread(
             Spawn(w, ord[1],
                   Bootstrap("port", ord[k],
                             {<< ports[p].name, << p, ord[k] >> >>})),
             p, ord, k + 1)

RECURSIVE SpawnEach_Twice(_, _, _, _)
\* the install loop spawning the bootstrap twice on every core
SpawnEach_Twice(w, p, ord, k) ==
    IF k > Len(ord) THEN w
    ELSE IF ~CanSpawn(w, ord[k]) THEN w
    ELSE LET b == Bootstrap("port", ord[k],
                            {<< ports[p].name, << p, ord[k] >> >>})
         IN SpawnEach_Twice(Spawn(Spawn(w, ord[k], b), ord[k], b),
                            p, ord, k + 1)

RECURSIVE SpawnEach(_, _, _, _)
\* the loop of add_pipeline_to_port over port.queues() in the order ord,
\* from position k: the worker map after the loop, left at the first spawn
\* that fails
SpawnEach(w, p, ord, k) ==
    IF k > Len(ord) THEN w
    ELSE IF ~CanSpawn(w, ord[k]) THEN w
    ELSE SpawnEach(Spawn(w, ord[k],
                         Bootstrap("port", ord[k],
                                   {<< ports[p].name, << p, ord[k] >> >>})),
                   p, ord, k + 1)

\* add_pipeline_to_port that reports an unknown name only after it has
\* installed on the first port instead
AddPipelineToPort_Fallback ==
    /\ phase = "built"
    /\ pc = "idle"
    /\ installs < MaxInstalls
    /\ \E name \in PortNames :
        LET p == IF FindPort(name) = 0 THEN 1 ELSE FindPort(name) IN
        \E ord \in Perms(ports[p].queues) :
             /\ worker' = SpawnEach(worker, p, ord, 1)
             /\ lastInstall' =
                  IF FindPort(name) = 0 THEN "PortNotFound"
                  ELSE IF \A c \in ports[p].queues : CanSpawn(worker, c)
                  THEN "Ok" ELSE "SpawnFailed"
             /\ portInstalled' = [portInstalled EXCEPT ![installs + 1] =
                  IF lastInstall' = "Ok" THEN p ELSE 0]
             /\ UNCHANGED phase
    /\ installs' = installs + 1
    /\ lastCall' = [op |-> "port", core |-> NoCore]
    /\ UNCHANGED << config, buildErr, eal, ealCleanups, mempools, ports,
                    cores, sigVars, pc, loopVars, result, ex, executes,
                    okExecutes, countVars, logVars >>

AddPipelineToPort ==
    /\ phase = "built"
    /\ pc = "idle"
    /\ installs < MaxInstalls
    /\ \E name \in PortNames :
        LET p == FindPort(name) IN
        IF p = 0
        THEN /\ lastInstall' = "PortNotFound"
             /\ UNCHANGED << worker, phase, portInstalled >>
        ELSE IF ~(ports[p].queues \subseteq DOMAIN cores)
        THEN \* self.core_map.cores[core_id] panics
             /\ phase' = "panicked"
             /\ lastInstall' = "panic"
             /\ UNCHANGED << worker, portInstalled >>
        ELSE \E ord \in Perms(ports[p].queues) :
             /\ worker' = SpawnEach(worker, p, ord, 1)
             /\ lastInstall' =
                  IF \A c \in ports[p].queues : CanSpawn(worker, c)
                  THEN "Ok" ELSE "SpawnFailed"
             /\ portInstalled' = [portInstalled EXCEPT ![installs + 1] =
                  IF \A c \in ports[p].queues : CanSpawn(worker, c)
                  THEN p ELSE 0]
             /\ UNCHANGED phase
    /\ installs' = installs + 1
    /\ lastCall' = [op |-> "port", core |-> NoCore]
    /\ UNCHANGED << config, buildErr, eal, ealCleanups, mempools, ports,
                    cores, sigVars, pc, loopVars, result, ex, executes,
                    okExecutes, countVars, logVars >>

\* the HashMap<String, PortQueue> collected for a core: one entry per port
\* name, the last port of that name with a queue on the core winning
PortQsOf(c) ==
    { << ports[i].name, << i, c >> >> : i \in
        { i \in 1..Len(ports) :
            /\ c \in ports[i].queues
            /\ \A j \in (i+1)..Len(ports) :
                 ~(ports[j].name = ports[i].name /\ c \in ports[j].queues) } }

\* add_pipeline_to_core that also unparks the core it spawned on
AddPipelineToCore_Unparks ==
    /\ phase = "built"
    /\ pc = "idle"
    /\ installs < MaxInstalls
    /\ \E c \in AllCoreIds :
        /\ lastCall' = [op |-> "core", core |-> c]
        /\ IF c \notin DOMAIN cores
           THEN /\ lastInstall' = "CoreNotFound"
                /\ UNCHANGED worker
           ELSE IF PortQsOf(c) = {}
           THEN /\ lastInstall' = "CoreNotAssigned"
                /\ UNCHANGED worker
           ELSE IF ~CanSpawn(worker, c)
           THEN /\ lastInstall' = "SpawnFailed"
                /\ UNCHANGED worker
           ELSE /\ worker' = [Spawn(worker, c, Bootstrap("core", c, PortQsOf(c)))
                                 EXCEPT ![c].status =
                                     IF @ = "parked" THEN "running" ELSE @]
                /\ lastInstall' = "Ok"
    /\ installs' = installs + 1
    /\ UNCHANGED portInstalled
    /\ UNCHANGED << buildVars, ports, cores, sigVars, pc, loopVars, result,
                    ex, executes, okExecutes, countVars, logVars >>

AddPipelineToCore ==
    /\ phase = "built"
    /\ pc = "idle"
    /\ installs < MaxInstalls
    /\ \E c \in AllCoreIds :
        /\ lastCall' = [op |-> "core", core |-> c]
        /\ IF c \notin DOMAIN cores
           THEN /\ lastInstall' = "CoreNotFound"
                /\ UNCHANGED worker
           ELSE IF PortQsOf(c) = {}
           THEN /\ lastInstall' = "CoreNotAssigned"
                /\ UNCHANGED worker
           ELSE IF ~CanSpawn(worker, c)
           THEN /\ lastInstall' = "SpawnFailed"
                /\ UNCHANGED worker
           ELSE /\ worker' = Spawn(worker, c, Bootstrap("core", c, PortQsOf(c)))
                /\ lastInstall' = "Ok"
    /\ installs' = installs + 1
    /\ UNCHANGED portInstalled
    /\ UNCHANGED << buildVars, ports, cores, sigVars, pc, loopVars, result,
                    ex, executes, okExecutes, countVars, logVars >>

AddPeriodicTaskToCore ==
    /\ phase = "built"
    /\ pc = "idle"
    /\ installs < MaxInstalls
    /\ \E c \in AllCoreIds :
        /\ lastCall' = [op |-> "periodic", core |-> c]
        /\ IF c \notin DOMAIN cores
           THEN /\ lastInstall' = "CoreNotFound"
                /\ UNCHANGED worker
           ELSE IF ~CanSpawn(worker, c)
           THEN /\ lastInstall' = "SpawnFailed"
                /\ UNCHANGED worker
           ELSE /\ worker' = Spawn(worker, c, Bootstrap("periodic", c, {}))
                /\ lastInstall' = "Ok"
    /\ installs' = installs + 1
    /\ UNCHANGED portInstalled
    /\ UNCHANGED << buildVars, ports, cores, sigVars, pc, loopVars, result,
                    ex, executes, okExecutes, countVars, logVars >>

(* --------------------------- worker threads ---------------------------- *)
\* the worker's executor runs the next queued bootstrap: the installer is
\* invoked on this thread and the task it returns is spawned locally
WorkerRunBootstrap(c) ==
    /\ worker[c].status = "running"
    /\ worker[c].queue # << >>
    /\ LET b == Head(worker[c].queue) IN
        /\ invoked' = invoked \cup
              { [id |-> b.id, kind |-> b.kind, target |-> b.target,
                 thread |-> c, arg |-> b.arg, epoch |-> b.epoch] }
        /\ calls' = [calls EXCEPT ![<< b.id, c >>] = @ + 1]
        /\ worker' = [worker EXCEPT ![c].queue = Tail(@),
                                    ![c].tasks = @ \cup {b.id}]
    /\ UNCHANGED << buildVars, ports, cores, sigVars, pc, loopVars, result,
                    ex, executes, okExecutes, installVars, countVars, polled >>

\* the worker's executor polls a spawned task
WorkerPollTask(c) ==
    /\ worker[c].status = "running"
    /\ \E t \in worker[c].tasks :
        /\ [id |-> t, thread |-> c] \notin polled
        /\ polled' = polled \cup { [id |-> t, thread |-> c] }
    /\ UNCHANGED << buildVars, ports, cores, worker, sigVars, pc, loopVars,
                    result, ex, executes, okExecutes, installVars, countVars,
                    invoked, calls >>

\* the worker leaves its run loop once its shutdown trigger has fired
WorkerExit(c) ==
    /\ worker[c].status = "running"
    /\ firedCount[c] > 0
    /\ worker' = [worker EXCEPT ![c].status = "exited"]
    /\ UNCHANGED << buildVars, ports, cores, sigVars, pc, loopVars, result,
                    ex, executes, okExecutes, installVars, countVars, logVars >>

Worker ==
    \E c \in DOMAIN worker :
        \/ WorkerRunBootstrap(c)
        \/ WorkerPollTask(c)
        \/ WorkerExit(c)

(* ------------------------------ execute -------------------------------- *)
ExecuteBegin ==
    /\ phase = "built"
    /\ pc = "idle"
    /\ executes < MaxExecutes
    /\ executes' = executes + 1
    /\ pc' = "start"
    /\ idx' = 1
    /\ result' = "none"
    /\ ex' = [NoExec EXCEPT !.n = executes + 1, !.okBefore = okExecutes,
                            !.latestCb = cbCount]
    /\ UNCHANGED << buildVars, ports, cores, worker, sigVars, visited, cur,
                    okExecutes, installVars, countVars, logVars >>

\* execute that leaves the start loop after the first port
ExecuteStartPort_Early ==
    /\ pc = "start"
    /\ \/ /\ ports' = [ports EXCEPT ![idx].state = "Started"]
          /\ ex' = [ex EXCEPT !.started = @ \cup {idx}]
          /\ pc' = "unpark" /\ idx' = 0
          /\ UNCHANGED result
       \/ /\ ex' = [ex EXCEPT !.failed = idx]
          /\ pc' = "idle"
          /\ result' = "Err"
          /\ idx' = 0
          /\ UNCHANGED ports
    /\ visited' = {}
    /\ UNCHANGED << buildVars, cores, worker, sigVars, cur, executes,
                    okExecutes, installVars, countVars, logVars >>

\* execute that ignores the result of port.start()
ExecuteStartPort_Ignore ==
    /\ pc = "start"
    /\ \/ /\ ports' = [ports EXCEPT ![idx].state = "Started"]
          /\ ex' = [ex EXCEPT !.started = @ \cup {idx}]
       \/ /\ ex' = [ex EXCEPT !.failed = idx]
          /\ UNCHANGED ports
    /\ IF idx = Len(ports)
       THEN pc' = "unpark" /\ idx' = 0
       ELSE pc' = "start" /\ idx' = idx + 1
    /\ visited' = {}
    /\ UNCHANGED << buildVars, cores, worker, sigVars, cur, result, executes,
                    okExecutes, installVars, countVars, logVars >>

\* for port in self.ports.iter_mut() { port.start()?; }
ExecuteStartPort ==
    /\ pc = "start"
    /\ \/ /\ ports' = [ports EXCEPT ![idx].state = "Started"]
          /\ ex' = [ex EXCEPT !.started = @ \cup {idx}]
          /\ IF idx = Len(ports)
             THEN pc' = "unpark" /\ idx' = 0
             ELSE pc' = "start" /\ idx' = idx + 1
          /\ UNCHANGED result
       \/ /\ ex' = [ex EXCEPT !.failed = idx]
          /\ pc' = "idle"
          /\ result' = "Err"
          /\ idx' = 0
          /\ UNCHANGED ports
    /\ visited' = {}
    /\ UNCHANGED << buildVars, cores, worker, sigVars, cur, executes,
                    okExecutes, installVars, countVars, logVars >>

\* for core in self.core_map.cores.values() { unpark }
ExecuteUnpark ==
    /\ pc = "unpark"
    /\ \E c \in DOMAIN cores \ visited :
        /\ visited' = IF visited \cup {c} = DOMAIN cores THEN {}
                       ELSE visited \cup {c}
        /\ IF cores[c].unpark
           THEN /\ worker' = [worker EXCEPT ![c].status =
                                 IF @ = "parked" THEN "running" ELSE @]
                /\ ex' = [ex EXCEPT !.unparked = @ \cup {c}]
           ELSE UNCHANGED << worker, ex >>
        /\ pc' = IF visited \cup {c} = DOMAIN cores THEN "wait" ELSE "unpark"
    /\ UNCHANGED << buildVars, ports, cores, sigVars, idx, cur, result,
                    executes, okExecutes, installVars, countVars, logVars >>

\* match self.config.duration { None | Some(0) => wait_for_signal, ... }?
SignalMode == config.duration = NoDuration \/ config.duration = 0

\* execute that waits for a signal whatever the configured duration
ExecuteWait_AlwaysSignal ==
    /\ pc = "wait"
    /\ \/ /\ pc' = "blocked_signal"
          /\ UNCHANGED << ex, result >>
       \/ /\ pc' = "idle"
          /\ result' = "Err"
          /\ ex' = [ex EXCEPT !.waitFailed = TRUE]
    /\ UNCHANGED << buildVars, ports, cores, worker, sigVars, loopVars,
                    executes, okExecutes, installVars, countVars, logVars >>

ExecuteWait ==
    /\ pc = "wait"
    /\ IF SignalMode
       THEN \/ /\ pc' = "blocked_signal"
               /\ UNCHANGED << ex, result >>
            \/ \* unix::signal(...)? fails
               /\ pc' = "idle"
               /\ result' = "Err"
               /\ ex' = [ex EXCEPT !.waitFailed = TRUE]
       ELSE /\ pc' = "blocked_timeout"
            /\ UNCHANGED << ex, result >>
    /\ UNCHANGED << buildVars, ports, cores, worker, sigVars, loopVars,
                    executes, okExecutes, installVars, countVars, logVars >>

\* wait_for_signal without the on_signal filter: any signal ends the wait
SignalDelivered_NoFilter ==
    /\ pc = "blocked_signal"
    /\ Len(ex.signals) < MaxSignals
    /\ \E sig \in UnixSignal :
        /\ ex' = [ex EXCEPT !.signals = Append(@, sig),
                            !.cbInvoked = @ \cup {on_signal.id},
                            !.woke = TRUE,
                            !.seqs = @ + 1]
        /\ pc' = "shutdown"
    /\ UNCHANGED << buildVars, ports, cores, worker, sigVars, loopVars,
                    result, executes, okExecutes, installVars, countVars,
                    logVars >>

\* a signal reaches the filtered stream wait_for_signal blocks on
SignalDelivered ==
    /\ pc = "blocked_signal"
    /\ Len(ex.signals) < MaxSignals
    /\ \E sig \in UnixSignal :
        /\ ex' = [ex EXCEPT !.signals = Append(@, sig),
                            !.cbInvoked = @ \cup {on_signal.id},
                            !.woke = sig \in on_signal.admits,
                            !.seqs = IF sig \in on_signal.admits
                                     THEN @ + 1 ELSE @]
        /\ pc' = IF sig \in on_signal.admits THEN "shutdown"
                 ELSE "blocked_signal"
    /\ UNCHANGED << buildVars, ports, cores, worker, sigVars, loopVars,
                    result, executes, okExecutes, installVars, countVars,
                    logVars >>

\* the delay wait_for_timeout blocks on expires
TimeoutExpires ==
    /\ pc = "blocked_timeout"
    /\ pc' = "shutdown"
    /\ ex' = [ex EXCEPT !.woke = TRUE, !.seqs = @ + 1]
    /\ UNCHANGED << buildVars, ports, cores, worker, sigVars, loopVars,
                    result, executes, okExecutes, installVars, countVars,
                    logVars >>

Done(vis) == vis = DOMAIN cores

\* shutdown loop that fires the trigger without taking it out of the core
ExecuteShutdownCore_NoTake ==
    /\ pc = "shutdown"
    /\ \E c \in DOMAIN cores \ visited :
        IF cores[c].shutdown
        THEN /\ firedCount' = [firedCount EXCEPT ![c] = @ + 1]
             /\ ex' = [ex EXCEPT !.fired = @ \cup {c}]
             /\ pc' = "join"
             /\ cur' = c
             /\ UNCHANGED << cores, visited, idx >>
        ELSE /\ visited' = IF Done(visited \cup {c}) THEN {}
                            ELSE visited \cup {c}
             /\ pc' = IF Done(visited \cup {c}) THEN "stop" ELSE "shutdown"
             /\ idx' = IF Done(visited \cup {c}) THEN 1 ELSE 0
             /\ UNCHANGED << cores, firedCount, ex, cur >>
    /\ UNCHANGED << buildVars, ports, worker, sigVars, result, executes,
                    okExecutes, installVars, joinedCount, logVars >>

\* shutdown loop that passes over every core as if it had no trigger
ExecuteShutdownCore_Skip ==
    /\ pc = "shutdown"
    /\ \E c \in DOMAIN cores \ visited :
        /\ visited' = IF Done(visited \cup {c}) THEN {}
                       ELSE visited \cup {c}
        /\ pc' = IF Done(visited \cup {c}) THEN "stop" ELSE "shutdown"
        /\ idx' = IF Done(visited \cup {c}) THEN 1 ELSE 0
        /\ UNCHANGED << cores, firedCount, ex, cur >>
    /\ UNCHANGED << buildVars, ports, worker, sigVars, result, executes,
                    okExecutes, installVars, joinedCount, logVars >>

\* one iteration of the shutdown loop up to trigger.shutdown()
ExecuteShutdownCore ==
    /\ pc = "shutdown"
    /\ \E c \in DOMAIN cores \ visited :
        IF cores[c].shutdown
        THEN /\ cores' = [cores EXCEPT ![c].shutdown = FALSE]
             /\ firedCount' = [firedCount EXCEPT ![c] = @ + 1]
             /\ ex' = [ex EXCEPT !.fired = @ \cup {c}]
             /\ pc' = "join"
             /\ cur' = c
             /\ UNCHANGED << visited, idx >>
        ELSE /\ visited' = IF Done(visited \cup {c}) THEN {}
                            ELSE visited \cup {c}
             /\ pc' = IF Done(visited \cup {c}) THEN "stop" ELSE "shutdown"
             /\ idx' = IF Done(visited \cup {c}) THEN 1 ELSE 0
             /\ UNCHANGED << cores, firedCount, ex, cur >>
    /\ UNCHANGED << buildVars, ports, worker, sigVars, result, executes,
                    okExecutes, installVars, joinedCount, logVars >>

\* shutdown loop that drops the join handle instead of joining the thread
ExecuteJoin_NoWait ==
    /\ pc = "join"
    /\ cores' = [cores EXCEPT ![cur].join = FALSE]
    /\ joinedCount' = [joinedCount EXCEPT ![cur] = @ + 1]
    /\ ex' = [ex EXCEPT !.joined = @ \cup {cur}]
    /\ visited' = IF Done(visited \cup {cur}) THEN {}
                   ELSE visited \cup {cur}
    /\ pc' = IF Done(visited \cup {cur}) THEN "stop" ELSE "shutdown"
    /\ idx' = IF Done(visited \cup {cur}) THEN 1 ELSE 0
    /\ cur' = 0
    /\ UNCHANGED << buildVars, ports, worker, sigVars, result, executes,
                    okExecutes, installVars, firedCount, logVars >>

\* core.join.take().unwrap().join(): returns once the thread has exited
ExecuteJoin ==
    /\ pc = "join"
    /\ worker[cur].status = "exited"
    /\ IF cores[cur].join
       THEN /\ cores' = [cores EXCEPT ![cur].join = FALSE]
            /\ joinedCount' = [joinedCount EXCEPT ![cur] = @ + 1]
            /\ ex' = [ex EXCEPT !.joined = @ \cup {cur}]
            /\ visited' = IF Done(visited \cup {cur}) THEN {}
                           ELSE visited \cup {cur}
            /\ pc' = IF Done(visited \cup {cur}) THEN "stop" ELSE "shutdown"
            /\ idx' = IF Done(visited \cup {cur}) THEN 1 ELSE 0
            /\ cur' = 0
            /\ UNCHANGED phase
       ELSE \* unwrap of None panics
            /\ phase' = "panicked"
            /\ pc' = "idle"
            /\ UNCHANGED << cores, joinedCount, ex, visited, idx, cur >>
    /\ UNCHANGED << config, buildErr, eal, ealCleanups, mempools, ports,
                    worker, sigVars, result, executes, okExecutes,
                    installVars, firedCount, logVars >>

\* execute that calls eal_cleanup itself before returning Ok
ExecuteStopPort_Cleanup ==
    /\ pc = "stop"
    /\ ports' = [ports EXCEPT ![idx].state = "Stopped"]
    /\ ex' = [ex EXCEPT !.stopped = @ \cup {idx}]
    /\ IF idx = Len(ports)
       THEN /\ pc' = "idle"
            /\ result' = "Ok"
            /\ okExecutes' = okExecutes + 1
            /\ idx' = 0
            /\ eal' = "cleaned"
            /\ ealCleanups' = ealCleanups + 1
       ELSE /\ pc' = "stop"
            /\ idx' = idx + 1
            /\ UNCHANGED << result, okExecutes, eal, ealCleanups >>
    /\ UNCHANGED << config, phase, buildErr, mempools, cores, worker, sigVars,
                    visited, cur, executes, installVars, countVars, logVars >>

\* for port in self.ports.iter_mut() { port.stop(); }  Ok(())
ExecuteStopPort ==
    /\ pc = "stop"
    /\ ports' = [ports EXCEPT ![idx].state = "Stopped"]
    /\ ex' = [ex EXCEPT !.stopped = @ \cup {idx}]
    /\ IF idx = Len(ports)
       THEN /\ pc' = "idle"
            /\ result' = "Ok"
            /\ okExecutes' = okExecutes + 1
            /\ idx' = 0
       ELSE /\ pc' = "stop"
            /\ idx' = idx + 1
            /\ UNCHANGED << result, okExecutes >>
    /\ UNCHANGED << buildVars, cores, worker, sigVars, visited, cur,
                    executes, installVars, countVars, logVars >>

(* --------------------------- specification ----------------------------- *)
Next ==
    \/ Build
    \/ Drop
    \/ SetOnSignal
    \/ AddPipelineToPort
    \/ AddPipelineToCore
    \/ AddPeriodicTaskToCore
    \/ Worker
    \/ ExecuteBegin
    \/ ExecuteStartPort
    \/ ExecuteUnpark
    \/ ExecuteWait
    \/ SignalDelivered
    \/ TimeoutExpires
    \/ ExecuteShutdownCore
    \/ ExecuteJoin
    \/ ExecuteStopPort

Spec == Init /\ [][Next]_vars

\* the master thread keeps running execute once it is past the port starts,
\* the timer of wait_for_timeout fires, and a worker whose shutdown trigger
\* has fired leaves its run loop
WorkerExits(c) == c \in DOMAIN worker /\ WorkerExit(c)

\* the runs of a runtime configured with a non-zero duration: wait_for_signal
\* is never entered, so no signal stream exists to deliver a signal to
InitTimeout == Init /\ ~(config.duration = NoDuration \/ config.duration = 0)

NextTimeout ==
    \/ Build
    \/ Drop
    \/ SetOnSignal
    \/ AddPipelineToPort
    \/ AddPipelineToCore
    \/ AddPeriodicTaskToCore
    \/ Worker
    \/ ExecuteBegin
    \/ ExecuteStartPort
    \/ ExecuteUnpark
    \/ ExecuteWait
    \/ TimeoutExpires
    \/ ExecuteShutdownCore
    \/ ExecuteJoin
    \/ ExecuteStopPort

FairSpec ==
    /\ InitTimeout
    /\ [][NextTimeout]_vars
    /\ WF_vars(ExecuteUnpark)
    /\ WF_vars(ExecuteWait)
    /\ WF_vars(TimeoutExpires)
    /\ WF_vars(ExecuteShutdownCore)
    /\ WF_vars(ExecuteJoin)
    /\ WF_vars(ExecuteStopPort)
    /\ \A c \in WorkerCores : WF_vars(WorkerExits(c))

(* ------------------------------- claims -------------------------------- *)
PortIds == 1..Len(ports)

\* C1: no installer and no task installed through an install operation runs
\* on a worker before execute has been called and has unparked that worker;
\* installs made before execute are only queued.
C1_NoRunBeforeUnpark ==
    /\ \A r \in invoked \cup polled :
         executes > 0 /\ worker[r.thread].status # "parked"
    /\ \A c \in DOMAIN worker :
         worker[c].status = "parked" => worker[c].tasks = {}

C1_Witness ==
    \E r \in invoked : r.epoch = 0 /\ [id |-> r.id, thread |-> r.thread] \in polled

\* C2: within execute every port's start has completed before any worker is
\* unparked: no worker leaves the parked state while a port is not started,
\* and none has been unparked while execute is still in its start loop.
C2_StartsBeforeUnpark ==
    /\ [](pc = "start" => ex.unparked = {})
    /\ [][\A c \in DOMAIN worker :
            (worker[c].status = "parked" /\ worker'[c].status = "running")
                => \A i \in PortIds :
                      ports[i].state = "Started" /\ i \in ex.started]_vars

C2_Witness ==
    /\ Len(ports) = 2
    /\ ex.started = PortIds
    /\ \E c \in DOMAIN worker : worker[c].status = "running"

\* C3: on every return of execute, whatever its result, every worker thread
\* has been joined and every port has been stopped.
C3_ReturnImpliesShutdown ==
    (pc = "idle" /\ result \in {"Ok", "Err"}) =>
        /\ \A c \in DOMAIN cores : joinedCount[c] >= 1
        /\ \A i \in PortIds : ports[i].state = "Stopped"

\* C4: if the blocking wait of execute fails after the ports were started and
\* the workers unparked, the shutdown sequence still runs before the error is
\* returned: every trigger fired, every worker joined, every port stopped.
C4_WaitFailureShutsDown ==
    (pc = "idle" /\ result = "Err" /\ ex.waitFailed) =>
        /\ \A c \in DOMAIN cores : firedCount[c] >= 1 /\ joinedCount[c] >= 1
        /\ \A i \in PortIds : ports[i].state = "Stopped"

\* C5: execute returns Ok only after the full shutdown sequence has run; if
\* the start of some port fails, execute returns at once with the error of
\* that first failing port: no later port is started, no worker is unparked
\* and no shutdown trigger is fired.
C5_OkAfterShutdownErrAtFirstStart ==
    /\ (pc = "idle" /\ result = "Ok") =>
          /\ ex.woke /\ ex.seqs = 1
          /\ \A c \in DOMAIN cores :
                ~cores[c].shutdown /\ ~cores[c].join /\ joinedCount[c] >= 1
          /\ ex.stopped = PortIds
          /\ \A i \in PortIds : ports[i].state = "Stopped"
    /\ ex.failed # 0 =>
          /\ pc = "idle" /\ result = "Err"
          /\ ex.started = 1..(ex.failed - 1)
          /\ ex.unparked = {}
          /\ ex.fired = {} /\ ex.joined = {} /\ ex.stopped = {}
          /\ ~ex.woke

C5_Witness ==
    pc = "idle" /\ result = "Err" /\ ex.failed = 2 /\ ex.started = {1}

\* C6: in signal mode execute stays blocked across delivered signals the
\* on_signal callback answers false for, leaves the wait on the first signal
\* it answers true for, and exactly one shutdown sequence then runs.
C6_SignalModeWait ==
    (SignalMode /\ pc # "idle") =>
        /\ pc = "blocked_signal" =>
              \A k \in 1..Len(ex.signals) : ex.signals[k] \notin on_signal.admits
        /\ pc \in {"shutdown", "join", "stop"} => ex.woke
        /\ ex.woke =>
              /\ Len(ex.signals) >= 1
              /\ ex.signals[Len(ex.signals)] \in on_signal.admits
              /\ \A k \in 1..(Len(ex.signals) - 1) :
                    ex.signals[k] \notin on_signal.admits
        /\ ex.seqs = IF ex.woke THEN 1 ELSE 0
        /\ ~ex.woke => ex.fired = {} /\ ex.stopped = {}

C6_Witness ==
    /\ SignalMode
    /\ pc = "stop"
    /\ Len(ex.signals) = 2
    /\ ex.signals[1] \notin on_signal.admits

\* C7: the callback consulted during execute is the one of the most recent
\* set_on_signal call before execute, earlier callbacks are never invoked,
\* and without any set_on_signal call the default callback admits every
\* signal, so the first delivered signal ends the wait.
C7_LatestCallbackOnly ==
    /\ on_signal.id = cbCount
    /\ ex.cbInvoked \subseteq {ex.latestCb}
    /\ cbCount = 0 => on_signal.admits = UnixSignal
    /\ (ex.latestCb = 0 /\ ex.signals # << >>) =>
          ex.woke /\ Len(ex.signals) = 1

C7_Witness ==
    ex.latestCb = 2 /\ ex.cbInvoked = {2}

\* C8: over any sequence of operations, repeated execute included, each
\* worker's shutdown trigger is fired at most once and its thread joined at
\* most once; after a completed execute both are absent, and a later execute
\* fires no trigger and joins no thread.
C8_MoveOnce ==
    /\ \A c \in AllCoreIds : firedCount[c] <= 1 /\ joinedCount[c] <= 1
    /\ (okExecutes >= 1 /\ pc = "idle") =>
          \A c \in DOMAIN cores : ~cores[c].shutdown /\ ~cores[c].join
    /\ ex.okBefore >= 1 => ex.fired = {} /\ ex.joined = {}

C8_Witness ==
    pc = "idle" /\ result = "Ok" /\ ex.okBefore = 1

\* C9: eal_cleanup is invoked exactly once for a build that returned Ok, at
\* the drop of the Runtime and nowhere else: not by execute, not by the
\* install operations.
C9_CleanupOnlyOnDrop ==
    ealCleanups = IF phase = "dropped" THEN 1 ELSE 0

C9_Witness ==
    phase = "dropped" /\ okExecutes >= 1 /\ installs >= 1

\* C10: if build fails at a step after EAL init succeeded, everything the
\* earlier steps acquired is released before build returns: the EAL is
\* cleaned up, mempools are freed, launched workers are shut down and
\* joined, built ports are released.
C10_FailedBuildReleases ==
    (phase = "buildfailed" /\ buildErr # "EalInitFailed") =>
        /\ eal = "cleaned"
        /\ mempools # "alive"
        /\ \A c \in DOMAIN worker : worker[c].status = "exited"
        /\ \A i \in PortIds : ports[i].state = "Closed"

\* number of bootstraps of install id waiting in the queue of core c
Queued(id, c) ==
    IF c \in DOMAIN worker
    THEN Cardinality({k \in 1..Len(worker[c].queue) : worker[c].queue[k].id = id})
    ELSE 0

InstallIds == 1..MaxInstalls

\* C11 (as stated): after a successful add_pipeline_to_port followed by
\* execute, the installer has been invoked exactly once for each (core,
\* queue) pair of the named port: no pair is skipped.
C11_InvokedOncePerPair ==
    (pc = "idle" /\ result = "Ok") =>
        \A id \in InstallIds :
            portInstalled[id] # 0 =>
                \A c \in ports[portInstalled[id]].queues :
                    calls[<< id, c >>] = 1

\* C11 (amended): a successful add_pipeline_to_port puts the installer once
\* on each core that has a queue on the named port and on no other core;
\* each such bootstrap is either still queued or was invoked once, by its
\* own core and with that core's queue of the port; never twice.
C11_OncePerPairQueuedOrInvoked ==
    \A id \in InstallIds :
        portInstalled[id] # 0 =>
            LET p == portInstalled[id] IN
            /\ \A c \in AllCoreIds :
                  /\ Queued(id, c) + calls[<< id, c >>] =
                        IF c \in ports[p].queues THEN 1 ELSE 0
                  /\ c \in DOMAIN worker =>
                        \A k \in 1..Len(worker[c].queue) :
                            worker[c].queue[k].id = id =>
                                worker[c].queue[k].arg =
                                    {<< ports[p].name, << p, c >> >>}
            /\ \A r \in invoked :
                  r.id = id =>
                      /\ r.thread \in ports[p].queues
                      /\ r.arg = {<< ports[p].name, << p, r.thread >> >>}

C11_Witness ==
    \E id \in InstallIds :
        /\ portInstalled[id] # 0
        /\ Cardinality(ports[portInstalled[id]].queues) = 2
        /\ \A c \in ports[portInstalled[id]].queues : calls[<< id, c >>] = 1

EntriesOn(c) ==
    { << ports[i].name, << i, c >> >> : i \in {j \in PortIds : c \in ports[j].queues} }

\* the bootstraps of add_pipeline_to_core, queued or already run
CoreBootstraps ==
    { [id |-> r.id, target |-> r.target, on |-> r.thread, arg |-> r.arg] :
        r \in {x \in invoked : x.kind = "core"} }
    \cup UNION { { [id |-> worker[c].queue[k].id,
                    target |-> worker[c].queue[k].target,
                    on |-> c, arg |-> worker[c].queue[k].arg] :
                   k \in {j \in 1..Len(worker[c].queue) :
                            worker[c].queue[j].kind = "core"} } :
                 c \in DOMAIN worker }

\* C13: add_pipeline_to_core returns CoreNotFound when the core is not a
\* registered worker (the master included), checked first, CoreNotAssigned
\* when it is a worker without any queue, and in both cases queues nothing;
\* otherwise the installer is queued on that core and receives exactly the
\* entries (port name -> queue) of every port with a queue on the core.
C13_CoreInstallOutcome ==
    /\ [](lastCall.op = "core" =>
            /\ lastInstall = "CoreNotFound" <=> lastCall.core \notin DOMAIN cores
            /\ lastInstall = "CoreNotAssigned" <=>
                  /\ lastCall.core \in DOMAIN cores
                  /\ \A i \in PortIds : lastCall.core \notin ports[i].queues)
    /\ [](\A b \in CoreBootstraps :
            /\ b.on = b.target
            /\ b.target \in DOMAIN cores
            /\ b.arg = EntriesOn(b.target))
    /\ [][(installs' = installs + 1
             /\ lastInstall' \in {"CoreNotFound", "CoreNotAssigned"}) =>
            UNCHANGED << worker, ports, cores, logVars >>]_vars

\* C14: build fails with DuplicatePort whenever two port configurations
\* carry the same name, so in every Runtime that build returned the port
\* names are pairwise distinct and a name identifies exactly one port.
C14_DistinctPortNames ==
    /\ (phase # "new"
          /\ \E i, j \in 1..Len(config.ports) :
                i # j /\ config.ports[i].name = config.ports[j].name)
        => (phase = "buildfailed" /\ buildErr \in {"EalInitFailed",
              "AllocationFailed", "CoreInitFailed", "PortError",
              "DuplicatePort"})
    /\ phase = "built" =>
          \A i, j \in PortIds : ports[i].name = ports[j].name => i = j

\* C15: in timeout mode, once every port has started, execute eventually
\* returns Ok without any signal being delivered or the on_signal callback
\* being consulted, every port having gone from Started to Stopped and every
\* worker joined.
C15_TimeoutReturnsOk ==
    (pc = "unpark" /\ ~SignalMode) ~>
        (/\ pc = "idle" /\ result = "Ok"
         /\ ex.signals = << >> /\ ex.cbInvoked = {}
         /\ ex.started = PortIds /\ ex.stopped = PortIds
         /\ \A i \in PortIds : ports[i].state = "Stopped"
         /\ \A c \in DOMAIN cores : joinedCount[c] = 1 /\ ~cores[c].join)

C15_Witness ==
    /\ ~SignalMode
    /\ pc = "idle" /\ result = "Ok"
    /\ ex.signals = << >> /\ ex.started = PortIds /\ ex.stopped = PortIds

\* C16: over any sequence of operations, a second execute included, start
\* is invoked on a port only while the port is Configured: no port goes
\* Started -> Started or Stopped -> Started.
C16_StartOnlyFromConfigured ==
    [][(pc = "start" /\ ex' # ex) => ports[idx].state = "Configured"]_vars

\* C17: for every port build produced, every core with a queue on the port
\* is a key of the worker core map, so the core lookup of
\* add_pipeline_to_port never fails; a configuration whose port lists the
\* master core yields no Runtime.
C17_PortCoresAreWorkers ==
    /\ phase \in {"built", "dropped", "panicked"} =>
          \A i \in PortIds : ports[i].queues \subseteq DOMAIN cores
    /\ phase # "panicked" /\ lastInstall # "panic"
    /\ Master \notin DOMAIN cores
    /\ (phase # "new"
          /\ \E i \in 1..Len(config.ports) : Master \in config.ports[i].cores)
        => phase = "buildfailed"

C17_Witness ==
    /\ phase = "built"
    /\ lastCall.op = "port" /\ lastInstall = "Ok"
    /\ \E id \in InstallIds :
          portInstalled[id] # 0
              /\ Cardinality(ports[portInstalled[id]].queues) = 2

\* C18: in the shutdown phase of execute each worker's trigger is fired
\* before its thread is joined, and no port is stopped until every worker
\* that had a trigger has been joined: no port is stopped while a worker
\* thread that can still run tasks exists.
C18_FireJoinThenStop ==
    /\ \A c \in AllCoreIds : joinedCount[c] <= firedCount[c]
    /\ ex.joined \subseteq ex.fired
    /\ pc = "join" => cur \in ex.fired
    /\ (pc = "stop" \/ ex.stopped # {}) =>
          /\ ex.joined = ex.fired
          /\ \A c \in DOMAIN cores :
                /\ ~cores[c].shutdown /\ ~cores[c].join
                /\ worker[c].status = "exited"

C18_Witness ==
    pc = "stop" /\ ex.stopped = {1} /\ ex.fired = DOMAIN cores
        /\ ex.joined = DOMAIN cores

\* C19: for all three install operations the installer and the task it
\* spawns are run by the thread of the target worker core, never by the
\* master thread that called the install nor by another worker.
C19_RunsOnTargetCore ==
    /\ \A r \in invoked :
          /\ r.thread = r.target
          /\ r.thread # Master
          /\ \A e \in r.arg : e[2][2] = r.thread
    /\ \A q \in polled :
          \E r \in invoked : r.id = q.id /\ r.thread = q.thread
    /\ \A c \in DOMAIN worker :
          \A k \in 1..Len(worker[c].queue) : worker[c].queue[k].target = c
    /\ \A id \in InstallIds : calls[<< id, Master >>] = 0

C19_Witness ==
    /\ \E r \in invoked :
          r.kind = "port" /\ [id |-> r.id, thread |-> r.thread] \in polled
    /\ Cardinality({r.thread : r \in invoked}) = 2

\* C20: once execute has returned Ok no installer and no task is ever run
\* again on any worker core, installers submitted by install calls made
\* after that return included.
C20_NothingRunsAfterOk ==
    /\ []((okExecutes >= 1 /\ pc = "idle") =>
            \A c \in DOMAIN worker : worker[c].status = "exited")
    /\ [][okExecutes >= 1 => UNCHANGED << invoked, polled, calls >>]_vars

C20_Witness ==
    okExecutes >= 1 /\ lastInstall = "SpawnFailed" /\ installs >= 1

====
